---- MODULE Spec2Model ----
(***************************************************************************)
(* Model of quanto/calibrate.py: the Calibration torch-function mode, its  *)
(* two global module hooks (calibrate_input, calibrate_output) and the     *)
(* momentum update of the activation scales (_updated_scale).              *)
(*                                                                         *)
(* A tensor is a flat sequence of numbers; a scale is a tensor.             *)
(***************************************************************************)
EXTENDS Integers, Sequences, FiniteSets, TLC

(***************************************************************************)
(* Bounds of the model.                                                    *)
(***************************************************************************)
MaxCalls == 2      \* module invocations issued by the caller
MaxEnters == 2     \* scope entries, nested or not (caps the handle id counter)
MaxLen == 3        \* elements of a scale handed to _updated_scale on its own

(***************************************************************************)
(* Arithmetic.  A float is a fixed-point number: the integer n stands for  *)
(* n / Unit, and a product is rounded to the nearest multiple of 1 / Unit. *)
(***************************************************************************)
Unit == 1000

Abs(i) == IF i < 0 THEN -i ELSE i

\* round(n / d) to the nearest integer, halves upwards; d > 0
DivRound(n, d) == (2 * n + d) \div (2 * d)

R(n, d) == DivRound(n * Unit, d)
RInt(i) == i * Unit
RAdd(a, b) == a + b
RSub(a, b) == a - b
RMul(a, b) == DivRound(a * b, Unit)
RLeq(a, b) == a <= b
RAbs(a) == Abs(a)
RMax(a, b) == IF RLeq(a, b) THEN b ELSE a

One == RInt(1)

(***************************************************************************)
(* Tensor operations used by the calibration code.                         *)
(***************************************************************************)
\* torch.max(t): the largest element, as a 0-dim tensor
RECURSIVE MaxOf(_)
MaxOf(t) == IF Len(t) = 1 THEN t[1] ELSE RMax(t[1], MaxOf(Tail(t)))

TorchMax(t) == <<MaxOf(t)>>

\* torch.all(scale == 1)
AllOnes(scale) == \A i \in 1..Len(scale) : scale[i] = One

\* shapes that broadcast: equal lengths, or one operand is a single element
Broadcastable(a, b) == Len(a) = Len(b) \/ Len(a) = 1 \/ Len(b) = 1

BLen(a, b) == IF Len(a) >= Len(b) THEN Len(a) ELSE Len(b)
BAt(a, i) == IF Len(a) = 1 THEN a[1] ELSE a[i]

\* scalar * tensor
Scaled(c, t) == [i \in 1..Len(t) |-> RMul(c, t[i])]
\* integer * tensor
Times(k, t) == [i \in 1..Len(t) |-> k * t[i]]
\* tensor + tensor with broadcasting
TAdd(a, b) == [i \in 1..BLen(a, b) |-> RAdd(BAt(a, i), BAt(b, i))]

\* no tensor: stands for the RuntimeError torch raises on shapes that do not
\* broadcast (every tensor of the model has at least one element)
ShapeError == <<>>

(***************************************************************************)
(* _updated_scale(scale, new_scale, momentum).  The result is ShapeError   *)
(* when the arithmetic raises for shapes that do not broadcast.            *)
(***************************************************************************)
\* no cold start: the moving average whatever the current scale is
UpdatedScaleAveraging(scale, new_scale, momentum) ==
    IF ~Broadcastable(scale, new_scale)
    THEN ShapeError
    ELSE TAdd(Scaled(momentum, scale), Scaled(RSub(One, momentum), new_scale))

UpdatedScaleAnyOne(scale, new_scale, momentum) ==
    IF \E i \in 1..Len(scale) : scale[i] = One
    THEN new_scale
    ELSE IF ~Broadcastable(scale, new_scale)
         THEN ShapeError
         ELSE TAdd(Scaled(momentum, scale), Scaled(RSub(One, momentum), new_scale))

UpdatedScale(scale, new_scale, momentum) ==
    IF AllOnes(scale)
    THEN new_scale
    ELSE IF ~Broadcastable(scale, new_scale)
         THEN ShapeError
         ELSE TAdd(Scaled(momentum, scale), Scaled(RSub(One, momentum), new_scale))

(***************************************************************************)
(* Values handed around by the module protocol: None, a plain tensor, or a *)
(* QTensor (integer data and a scale).                                     *)
(***************************************************************************)
NoneVal == [kind |-> "none", data |-> <<>>, scale |-> <<>>]
Plain(d) == [kind |-> "tensor", data |-> d, scale |-> <<>>]
QT(d, s) == [kind |-> "qtensor", data |-> d, scale |-> s]

QMax == 127    \* largest magnitude of the quantized integer type

Clamp(i) == IF i > QMax THEN QMax ELSE IF i < -QMax THEN -QMax ELSE i

\* QTensor.dequantize(): data * scale (the data are integers)
Dequantize(q) == Plain([i \in 1..Len(q.data) |-> q.data[i] * BAt(q.scale, i)])

\* quantization of a plain tensor with a given scale
Quantize(t, s) ==
    QT([i \in 1..Len(t.data) |-> Clamp(DivRound(t.data[i], BAt(s, i)))], s)

MaybeDequantize(v) == IF v.kind = "qtensor" THEN Dequantize(v) ELSE v

\* absmax_scale(base, activations, axis): the largest magnitude, over the
\* whole tensor (axis "none") or per element of the axis the configuration
\* names (axis "default"), divided by the integer range
AbsmaxScale(t, activations, axis) ==
    IF axis = "none" \/ activations = "per_tensor"
    THEN <<DivRound(MaxOf([i \in 1..Len(t) |-> RAbs(t[i])]), QMax)>>
    ELSE [i \in 1..Len(t) |-> DivRound(RAbs(t[i]), QMax)]

(***************************************************************************)
(* The modules of the model graph.                                         *)
(*   relu : an ordinary module, no QModuleMixin                            *)
(*   qoff : a quantized module with activations = None                     *)
(*   lin  : a quantized module, per-tensor activations                     *)
(*   ax   : a quantized module, per-axis activations                       *)
(*   blk  : a quantized module whose qforward invokes the module lin       *)
(***************************************************************************)
Modules == {"relu", "qoff", "lin", "ax", "blk"}
QModules == {"qoff", "lin", "ax", "blk"}

IsQModule(m) == m \in QModules

Activations(m) ==
    CASE m = "lin" -> "per_tensor"
      [] m = "blk" -> "per_tensor"
      [] m = "ax" -> "per_axis"
      [] OTHER -> "none"

\* the integer factor the module's raw computation multiplies its input by
Weight(m) ==
    CASE m = "lin" -> 2
      [] m = "ax" -> -1
      [] m = "blk" -> 3
      [] OTHER -> 1

Child(m) == IF m = "blk" THEN "lin" ELSE "none"

EligibleAnyQModule(m) == IsQModule(m)

\* isinstance(module, QModuleMixin) and module.activations is not None
Eligible(m) == IsQModule(m) /\ Activations(m) # "none"

Controllers == {"c1", "c2"}

\* Calibration.__init__: c1 = Calibration(), c2 = Calibration(momentum=0.5)
Momentum(c) == IF c = "c1" THEN R(9, 10) ELSE R(1, 2)

\* the default of calibrate_input's momentum parameter
HookMomentumDefault == R(9, 10)

(***************************************************************************)
(* State.                                                                  *)
(***************************************************************************)
VARIABLES
    input_scale,    \* [QModules -> scale]: module.input_scale
    output_scale,   \* [QModules -> scale]: module.output_scale
    preHooks,       \* torch's global forward pre-hooks, in registration order
    postHooks,      \* torch's global forward hooks, in registration order
    pre_handle,     \* [Controllers -> id]: self.pre_handle (0: not set yet)
    post_handle,    \* [Controllers -> id]: self.post_handle (0: not set yet)
    nextId,         \* the id the next RemovableHandle gets
    modeStack,      \* torch's stack of active torch-function modes
    scopes,         \* the caller's open `with` statements, innermost last
    pc,             \* where the caller is: "run", or inside __enter__/__exit__
    cur,            \* the controller whose __enter__/__exit__ is running
    exc,            \* an error raised in a `with` body is propagating
    calls,          \* module invocations issued so far
    enters,         \* scope entries so far
    reentered,      \* some controller was entered while it was itself active
    last,           \* the latest module invocation: what went in and came out,
                    \* and which modules earlier invocations calibrated
    fn,             \* one application of _updated_scale (specification FnSpec)
    tf              \* one intercepted torch function call (specification TfSpec)

vars == <<input_scale, output_scale, preHooks, postHooks, pre_handle, post_handle,
          nextId, modeStack, scopes, pc, cur, exc, calls, enters,
          reentered, last, fn, tf>>

Sentinel == <<One>>

(***************************************************************************)
(* One module invocation is evaluated on a record r:                       *)
(*   isc, osc : the scales of the modules                                  *)
(*   args     : the positional arguments as the hooks have left them       *)
(*   val      : the value the latest step returned                         *)
(*   err      : an exception is propagating                                *)
(*   pre, post: the global hooks registered while the invocation runs      *)
(*   log      : the hooks and forward paths that ran, in order             *)
(*   seen     : the positional arguments each __call__ handed to forward   *)
(***************************************************************************)
Ev(ev, m, c, v) == [ev |-> ev, mod |-> m, ctrl |-> c, val |-> v]

Logged(r, e) == [r EXCEPT !.log = Append(@, e)]

Raise(r) == [r EXCEPT !.err = TRUE, !.val = NoneVal]

RECURSIVE CallModule(_, _, _)
RECURSIVE QForward(_, _, _)
RECURSIVE Forward(_, _, _)
RECURSIVE RunPreHooks(_, _, _)
RECURSIVE RunPostHooks(_, _, _, _)
RECURSIVE CalibrateOutput(_, _, _, _, _)

\* module.qforward(x): the raw computation, on the kind of tensor it is given
QForward(m, x, r) ==
    IF r.err THEN r
    ELSE LET r0 == Logged(r, Ev("qforward", m, "-", x))
             r1 == IF Child(m) = "none" THEN [r0 EXCEPT !.val = x]
                   ELSE CallModule(Child(m), <<x>>, r0)
         IN  IF r1.err THEN r1
             ELSE [r1 EXCEPT !.val =
                      [r1.val EXCEPT !.data = Times(Weight(m), r1.val.data)]]

\* module.forward(x): the module's own computation; a quantized module with
\* activations quantizes its raw output with its current output scale
Forward(m, x, r) ==
    IF r.err THEN r
    ELSE IF ~IsQModule(m)
    THEN [Logged(r, Ev("forward", m, "-", x)) EXCEPT
             !.val = [x EXCEPT !.data = [i \in 1..Len(x.data) |->
                                            RMax(0, x.data[i])]]]
    ELSE LET r1 == QForward(m, x, Logged(r, Ev("forward", m, "-", x)))
         IN  IF r1.err \/ Activations(m) = "none" THEN r1
             ELSE [r1 EXCEPT !.val = Quantize(MaybeDequantize(r1.val), r1.osc[m])]

(***************************************************************************)
(* Calibration.calibrate_input(self, module, input, momentum=0.9)          *)
(***************************************************************************)
AdoptedScaleFirst(x) == <<x.scale[1]>>

\* the scale adopted from an input that is a QTensor: torch.max(input._scale)
AdoptedScale(x) == TorchMax(x.scale)

InputMomentumOfSelf(self, momentum) == Momentum(self)

\* the momentum of the input update: the hook's parameter, not self.momentum
InputMomentum(self, momentum) == momentum

CalibrateInput(self, module, input, momentum, r) ==
    IF Eligible(module)
    THEN LET x == input[1]
         IN  IF x.kind = "qtensor"
             THEN Logged([r EXCEPT !.isc[module] = AdoptedScale(x), !.val = x],
                         Ev("pre", module, self, x))
             ELSE LET cand == AbsmaxScale(x.data, Activations(module), "default")
                      new == UpdatedScale(r.isc[module], cand,
                                          InputMomentum(self, momentum))
                  IN  IF new = ShapeError
                      THEN Raise(Logged(r, Ev("pre", module, self, NoneVal)))
                      ELSE Logged([r EXCEPT !.isc[module] = new, !.val = x],
                                  Ev("pre", module, self, x))
    ELSE Logged([r EXCEPT !.val = NoneVal], Ev("pre", module, self, NoneVal))

(***************************************************************************)
(* Calibration.calibrate_output(self, module, input, output)               *)
(***************************************************************************)
\* forward evaluated before the output scale is stored
CalibrateOutputStale(self, module, input, output, r) ==
    IF Eligible(module)
    THEN LET r0 == Logged(r, Ev("post", module, self, output))
             r1 == QForward(module, input[1], r0)
         IN  IF r1.err THEN r1
             ELSE LET qoutput == MaybeDequantize(r1.val)
                      cand == AbsmaxScale(qoutput.data, Activations(module), "none")
                      new == UpdatedScale(r1.osc[module], cand, Momentum(self))
                  IN  IF new = ShapeError THEN Raise(r1)
                      ELSE LET r2 == Forward(module, input[1], r1)
                           IN  IF r2.err THEN r2
                               ELSE Logged([r2 EXCEPT !.osc[module] = new],
                                           Ev("post_ret", module, self, r2.val))
    ELSE Logged([r EXCEPT !.val = NoneVal], Ev("post_ret", module, self, NoneVal))

\* the handed output returned once the scale is stored, forward not re-run
CalibrateOutputNoRerun(self, module, input, output, r) ==
    IF Eligible(module)
    THEN LET r0 == Logged(r, Ev("post", module, self, output))
             r1 == QForward(module, input[1], r0)
         IN  IF r1.err THEN r1
             ELSE LET qoutput == MaybeDequantize(r1.val)
                      cand == AbsmaxScale(qoutput.data, Activations(module), "none")
                      new == UpdatedScale(r1.osc[module], cand, Momentum(self))
                  IN  IF new = ShapeError THEN Raise(r1)
                      ELSE Logged([r1 EXCEPT !.osc[module] = new, !.val = output],
                                  Ev("post_ret", module, self, output))
    ELSE Logged([r EXCEPT !.val = NoneVal], Ev("post_ret", module, self, NoneVal))

CalibrateOutput(self, module, input, output, r) ==
    IF Eligible(module)
    THEN LET r0 == Logged(r, Ev("post", module, self, output))
             r1 == QForward(module, input[1], r0)
         IN  IF r1.err THEN r1
             ELSE LET qoutput == MaybeDequantize(r1.val)
                      cand == AbsmaxScale(qoutput.data, Activations(module), "none")
                      new == UpdatedScale(r1.osc[module], cand, Momentum(self))
                  IN  IF new = ShapeError THEN Raise(r1)
                      ELSE LET r2 == Forward(module, input[1],
                                             [r1 EXCEPT !.osc[module] = new])
                           IN  IF r2.err THEN r2
                               ELSE Logged(r2, Ev("post_ret", module, self, r2.val))
    ELSE Logged([r EXCEPT !.val = NoneVal], Ev("post_ret", module, self, NoneVal))

(***************************************************************************)
(* torch.nn.Module.__call__: the global pre-hooks in registration order (a *)
(* result that is not None replaces the arguments, wrapped in a tuple),    *)
(* forward, then the global forward hooks in registration order (a result  *)
(* that is not None replaces the output).                                  *)
(***************************************************************************)
RunPreHooks(m, r, i) ==
    IF r.err \/ i > Len(r.pre) THEN r
    ELSE LET h == CalibrateInput(r.pre[i].ctrl, m, r.args, HookMomentumDefault, r)
         IN  RunPreHooks(m,
                         IF ~h.err /\ h.val # NoneVal
                         THEN [h EXCEPT !.args = <<h.val>>] ELSE h,
                         i + 1)

RunPostHooks(m, out, r, i) ==
    IF r.err THEN r
    ELSE IF i > Len(r.post) THEN [r EXCEPT !.val = out]
    ELSE LET h == CalibrateOutput(r.post[i].ctrl, m, r.args, out, r)
         IN  RunPostHooks(m, IF ~h.err /\ h.val # NoneVal THEN h.val ELSE out, h, i + 1)

\* self.forward(*args): forward takes one input, any other number of
\* positional arguments is a TypeError
CallForward(m, args, r) ==
    IF r.err THEN r
    ELSE LET r1 == [r EXCEPT !.seen = Append(@, [mod |-> m, args |-> args])]
         IN  IF Len(args) # 1 THEN Raise(r1) ELSE Forward(m, args[1], r1)

CallModule(m, args, r) ==
    IF r.err THEN r
    ELSE LET outer == r.args
             r1 == RunPreHooks(m, [r EXCEPT !.args = args], 1)
             r2 == CallForward(m, r1.args, r1)
             r3 == RunPostHooks(m, r2.val, r2, 1)
         IN  [r3 EXCEPT !.args = outer]

(***************************************************************************)
(* Inputs the caller feeds to the modules.                                 *)
(***************************************************************************)
T(seq) == Plain([i \in 1..Len(seq) |-> RInt(seq[i])])

QIn == QT(<<10, -20, 30>>, <<RInt(1), RInt(3), RInt(2)>>)

\* the batches fed to each module
Inputs(m) ==
    CASE m = "lin" -> {T(<<254>>), T(<<-508>>), T(<<127>>), QIn}
      [] m = "ax" -> {T(<<254>>), T(<<127>>), T(<<127, -381>>), T(<<254, 127, 127>>), QIn}
      [] m = "blk" -> {T(<<254>>), T(<<-508>>), QIn}
      [] OTHER -> {T(<<-508>>), QIn}

\* the positional arguments of an invocation: one batch, or for lin also a
\* batch followed by a second positional argument
ArgLists(m) ==
    {<<x>> : x \in Inputs(m)}
        \cup (IF m = "lin" THEN {<<T(<<254>>), T(<<-508>>)>>} ELSE {})

NoCall ==
    [mod |-> "none", args |-> <<>>, out |-> NoneVal, err |-> FALSE, log |-> <<>>,
     seen |-> <<>>, isc0 |-> [m \in QModules |-> Sentinel], osc0 |-> [m \in QModules |-> Sentinel],
     npre |-> 0, npost |-> 0, depth |-> 0, epoch |-> 0, ical |-> {}, ocal |-> {}]

NoFn == [s |-> Sentinel, new |-> Sentinel, m |-> One, res |-> <<>>, done |-> FALSE]

\* keyword arguments: None, or a dict given as its set of <<key, value>> items
NoneKw == [isNone |-> TRUE, items |-> {}]
Dict(items) == [isNone |-> FALSE, items |-> items]

NoTf == [func |-> "add", args |-> <<0, 0>>, kwargs |-> NoneKw,
         ret |-> [err |-> FALSE, v |-> 0], invoked |-> <<>>, done |-> FALSE]

Constructed ==
    /\ input_scale = [m \in QModules |-> Sentinel]
    /\ output_scale = [m \in QModules |-> Sentinel]
    /\ preHooks = <<>>
    /\ postHooks = <<>>
    /\ pre_handle = [c \in Controllers |-> 0]
    /\ post_handle = [c \in Controllers |-> 0]
    /\ nextId = 1
    /\ modeStack = <<>>
    /\ scopes = <<>>
    /\ pc = "run"
    /\ cur = "c1"
    /\ exc = FALSE
    /\ calls = 0
    /\ enters = 0
    /\ reentered = FALSE
    /\ last = NoCall

Init == Constructed /\ fn = NoFn /\ tf = NoTf

Front(seq) == SubSeq(seq, 1, Len(seq) - 1)

\* RemovableHandle.remove(): drop the hook with this id, if it is still there
Removed(hooks, id) == SelectSeq(hooks, LAMBDA h : h.id # id)

(***************************************************************************)
(* Calibration.__enter__                                                   *)
(***************************************************************************)
\* super().__enter__() left out
EnterModeNoPush(c) ==
    /\ pc = "run" /\ ~exc
    /\ enters < MaxEnters
    /\ cur' = c
    /\ pc' = "enter_pre"
    /\ enters' = enters + 1
    /\ reentered' = (reentered \/ \E i \in 1..Len(scopes) : scopes[i] = c)
    /\ UNCHANGED <<input_scale, output_scale, preHooks, postHooks, pre_handle,
                   post_handle, nextId, modeStack, scopes, exc, calls, last, fn, tf>>

\* `with c:` begins; super().__enter__() pushes the mode
EnterMode(c) ==
    /\ pc = "run" /\ ~exc
    /\ enters < MaxEnters
    /\ modeStack' = Append(modeStack, c)
    /\ cur' = c
    /\ pc' = "enter_pre"
    /\ enters' = enters + 1
    /\ reentered' = (reentered \/ \E i \in 1..Len(scopes) : scopes[i] = c)
    /\ UNCHANGED <<input_scale, output_scale, preHooks, postHooks, pre_handle,
                   post_handle, nextId, scopes, exc, calls, last, fn, tf>>

\* self.pre_handle = register_module_forward_pre_hook(self.calibrate_input)
EnterRegisterPre ==
    /\ pc = "enter_pre"
    /\ preHooks' = Append(preHooks, [id |-> nextId, ctrl |-> cur])
    /\ pre_handle' = [pre_handle EXCEPT ![cur] = nextId]
    /\ nextId' = nextId + 1
    /\ pc' = "enter_post"
    /\ UNCHANGED <<input_scale, output_scale, postHooks, post_handle, modeStack,
                   scopes, cur, exc, calls, enters, reentered, last, fn, tf>>

\* the second registration made with register_module_forward_pre_hook and
\* calibrate_input again
EnterRegisterPostAsPre ==
    /\ pc = "enter_post"
    /\ preHooks' = Append(preHooks, [id |-> nextId, ctrl |-> cur])
    /\ post_handle' = [post_handle EXCEPT ![cur] = nextId]
    /\ nextId' = nextId + 1
    /\ scopes' = Append(scopes, cur)
    /\ pc' = "run"
    /\ UNCHANGED <<input_scale, output_scale, postHooks, pre_handle, modeStack,
                   cur, exc, calls, enters, reentered, last, fn, tf>>

\* self.post_handle = register_module_forward_hook(self.calibrate_output);
\* __enter__ returns and the body of the `with` starts
EnterRegisterPost ==
    /\ pc = "enter_post"
    /\ postHooks' = Append(postHooks, [id |-> nextId, ctrl |-> cur])
    /\ post_handle' = [post_handle EXCEPT ![cur] = nextId]
    /\ nextId' = nextId + 1
    /\ scopes' = Append(scopes, cur)
    /\ pc' = "run"
    /\ UNCHANGED <<input_scale, output_scale, preHooks, pre_handle, modeStack,
                   cur, exc, calls, enters, reentered, last, fn, tf>>

(***************************************************************************)
(* Calibration.__exit__(exc_type, exc_val, exc_tb)                         *)
(***************************************************************************)
\* the innermost `with` ends, normally or by an error of its body;
\* super().__exit__() pops the mode on top of the stack
ExitMode ==
    /\ pc = "run"
    /\ scopes # <<>>
    /\ cur' = scopes[Len(scopes)]
    /\ modeStack' = Front(modeStack)
    /\ pc' = "exit_pre"
    /\ UNCHANGED <<input_scale, output_scale, preHooks, postHooks, pre_handle,
                   post_handle, nextId, scopes, exc, calls, enters, reentered,
                   last, fn, tf>>

\* self.pre_handle.remove() left out
ExitKeepPre ==
    /\ pc = "exit_pre"
    /\ pc' = "exit_post"
    /\ UNCHANGED <<input_scale, output_scale, preHooks, postHooks, pre_handle,
                   post_handle, nextId, modeStack, scopes, cur, exc, calls, enters,
                   reentered, last, fn, tf>>

\* self.pre_handle.remove()
ExitRemovePre ==
    /\ pc = "exit_pre"
    /\ preHooks' = Removed(preHooks, pre_handle[cur])
    /\ pc' = "exit_post"
    /\ UNCHANGED <<input_scale, output_scale, postHooks, pre_handle, post_handle,
                   nextId, modeStack, scopes, cur, exc, calls, enters, reentered,
                   last, fn, tf>>

ExitReturnTrue == TRUE

\* what __exit__ returns, as a truth value: it returns None
ExitReturn == FALSE

\* self.post_handle.remove() left out
ExitKeepPost ==
    /\ pc = "exit_post"
    /\ scopes' = Front(scopes)
    /\ exc' = (exc /\ ~ExitReturn)
    /\ pc' = "run"
    /\ UNCHANGED <<input_scale, output_scale, preHooks, postHooks, pre_handle,
                   post_handle, nextId, modeStack, cur, calls, enters, reentered,
                   last, fn, tf>>

\* self.post_handle.remove(); __exit__ returns, and the `with` statement
\* re-raises the body's error unless the returned value is true
ExitRemovePost ==
    /\ pc = "exit_post"
    /\ postHooks' = Removed(postHooks, post_handle[cur])
    /\ scopes' = Front(scopes)
    /\ exc' = (exc /\ ~ExitReturn)
    /\ pc' = "run"
    /\ UNCHANGED <<input_scale, output_scale, preHooks, pre_handle, post_handle,
                   nextId, modeStack, cur, calls, enters, reentered, last, fn, tf>>

(***************************************************************************)
(* The caller.                                                             *)
(***************************************************************************)
\* the modules for which a hook of the latest invocation stored a scale: the
\* pre-hook ("pre") or the post-hook ("post_ret") returned a value
Wrote(ev) ==
    {last.log[i].mod : i \in {j \in 1..Len(last.log) :
                                 last.log[j].ev = ev /\ last.log[j].val # NoneVal}}

\* module(*args): one invocation of a module, hooks included
Invoke(m, args) ==
    /\ pc = "run" /\ ~exc
    /\ calls < MaxCalls
    /\ LET r == CallModule(m, args,
                           [isc |-> input_scale, osc |-> output_scale, args |-> <<>>,
                            val |-> NoneVal, err |-> FALSE, log |-> <<>>,
                            seen |-> <<>>, pre |-> preHooks, post |-> postHooks])
       IN  /\ input_scale' = r.isc
           /\ output_scale' = r.osc
           /\ exc' = r.err
           /\ last' = [mod |-> m, args |-> args, out |-> r.val, err |-> r.err,
                       log |-> r.log, seen |-> r.seen,
                       isc0 |-> input_scale, osc0 |-> output_scale,
                       npre |-> Len(preHooks), npost |-> Len(postHooks),
                       depth |-> Len(scopes), epoch |-> enters,
                       ical |-> last.ical \cup Wrote("pre"),
                       ocal |-> last.ocal \cup Wrote("post_ret")]
    /\ calls' = calls + 1
    /\ UNCHANGED <<preHooks, postHooks, pre_handle, post_handle, nextId, modeStack,
                   scopes, pc, cur, enters, reentered, fn, tf>>

\* the body of a `with` raises an error of its own
BodyRaise ==
    /\ pc = "run" /\ ~exc
    /\ scopes # <<>>
    /\ exc' = TRUE
    /\ UNCHANGED <<input_scale, output_scale, preHooks, postHooks, pre_handle,
                   post_handle, nextId, modeStack, scopes, pc, cur, calls, enters,
                   reentered, last, fn, tf>>

\* an error that has left every `with` reaches the caller, who handles it
Catch ==
    /\ pc = "run" /\ exc
    /\ scopes = <<>>
    /\ exc' = FALSE
    /\ UNCHANGED <<input_scale, output_scale, preHooks, postHooks, pre_handle,
                   post_handle, nextId, modeStack, scopes, pc, cur, calls, enters,
                   reentered, last, fn, tf>>

Next ==
    \/ \E c \in Controllers : EnterMode(c)
    \/ EnterRegisterPre
    \/ EnterRegisterPost
    \/ ExitMode
    \/ ExitRemovePre
    \/ ExitRemovePost
    \/ \E m \in Modules : \E args \in ArgLists(m) : Invoke(m, args)
    \/ BodyRaise
    \/ Catch

Spec == Init /\ [][Next]_vars

(***************************************************************************)
(* _updated_scale on its own: every scale, candidate and momentum of a     *)
(* bounded set, one application.                                           *)
(***************************************************************************)
FnVals == {R(1, 2), RInt(1), RInt(2)}
FnScales == UNION {[1..n -> FnVals] : n \in 1..MaxLen}
FnMomenta == {R(0, 1), R(1, 2), R(9, 10), R(1, 1)}

FnInit ==
    /\ Constructed
    /\ fn \in [s : FnScales, new : FnScales, m : FnMomenta, res : {<<>>}, done : {FALSE}]
    /\ tf = NoTf

ApplyUpdatedScale ==
    /\ ~fn.done
    /\ fn' = [fn EXCEPT !.res = UpdatedScale(fn.s, fn.new, fn.m), !.done = TRUE]
    /\ UNCHANGED <<input_scale, output_scale, preHooks, postHooks, pre_handle,
                   post_handle, nextId, modeStack, scopes, pc, cur, exc, calls,
                   enters, reentered, last, tf>>

FnNext == ApplyUpdatedScale

FnSpec == FnInit /\ [][FnNext]_vars

(***************************************************************************)
(* Calibration.__torch_function__ on its own: inside one active scope, one *)
(* torch function call of a bounded set is intercepted.                    *)
(***************************************************************************)
TfFuncs == {"add", "mul"}
TfNums == {-2, 1, 3}
TfArgs == {<<a, b>> : a \in TfNums, b \in TfNums}
TfKwargs == {NoneKw, Dict({}), Dict({<<"alpha", 2>>}), Dict({<<"alpha", -1>>})}

TypeError == [err |-> TRUE, v |-> 0]
Returned(v) == [err |-> FALSE, v |-> v]

\* what the original torch function returns: add(a, b, alpha=1) is
\* a + alpha * b, mul(a, b) takes no keyword; `**None` is a TypeError
OriginalFunction(func, args, kwargs) ==
    IF kwargs.isNone THEN TypeError
    ELSE IF func = "add"
    THEN LET given == {p \in kwargs.items : p[1] = "alpha"}
             alpha == IF given = {} THEN 1 ELSE (CHOOSE p \in given : TRUE)[2]
         IN  Returned(args[1] + alpha * args[2])
    ELSE IF kwargs.items # {} THEN TypeError
    ELSE Returned(args[1] * args[2])

\* func(*args, **kwargs): the value returned and the record of the call
CallFunc(func, args, kwargs) ==
    [ret |-> OriginalFunction(func, args, kwargs),
     invoked |-> <<[func |-> func, args |-> args, kwargs |-> kwargs]>>]

\* func(*args): the keyword arguments are not passed on
TorchFunctionNoKwargs(self, func, types, args, kwargs) ==
    CallFunc(func, args, Dict({}))

\* Calibration.__torch_function__
TorchFunction(self, func, types, args, kwargs) ==
    LET kw == IF kwargs # NoneKw THEN kwargs ELSE Dict({})
    IN  CallFunc(func, args, kw)

\* the state right after `with c:` was entered on a fresh process
TfInit ==
    /\ \E c \in Controllers :
         /\ preHooks = <<[id |-> 1, ctrl |-> c]>>
         /\ postHooks = <<[id |-> 2, ctrl |-> c]>>
         /\ pre_handle = [k \in Controllers |-> IF k = c THEN 1 ELSE 0]
         /\ post_handle = [k \in Controllers |-> IF k = c THEN 2 ELSE 0]
         /\ modeStack = <<c>>
         /\ scopes = <<c>>
         /\ cur = c
    /\ input_scale = [m \in QModules |-> Sentinel]
    /\ output_scale = [m \in QModules |-> Sentinel]
    /\ nextId = 3
    /\ pc = "run"
    /\ exc = FALSE
    /\ calls = 0
    /\ enters = 1
    /\ reentered = FALSE
    /\ last = NoCall
    /\ fn = NoFn
    /\ tf \in [func : TfFuncs, args : TfArgs, kwargs : TfKwargs,
               ret : {Returned(0)}, invoked : {<<>>}, done : {FALSE}]

\* torch dispatches a function call to the innermost active mode
InterceptedCall ==
    /\ modeStack # <<>>
    /\ ~tf.done
    /\ LET self == modeStack[Len(modeStack)]
           r == TorchFunction(self, tf.func, {}, tf.args, tf.kwargs)
       IN  tf' = [tf EXCEPT !.ret = r.ret, !.invoked = r.invoked, !.done = TRUE]
    /\ UNCHANGED <<input_scale, output_scale, preHooks, postHooks, pre_handle,
                   post_handle, nextId, modeStack, scopes, pc, cur, exc, calls,
                   enters, reentered, last, fn>>

TfNext == InterceptedCall

TfSpec == TfInit /\ [][TfNext]_vars

(***************************************************************************)
(* Claims.                                                                 *)
(***************************************************************************)
Elem(t, i) == IF Len(t) = 1 THEN t[1] ELSE t[i]
Longer(a, b) == IF Len(a) >= Len(b) THEN Len(a) ELSE Len(b)
IsSentinel(scale) == \A i \in DOMAIN scale : scale[i] = Unit
ShapesMatch(a, b) == Len(a) = Len(b) \/ Len(a) = 1 \/ Len(b) = 1

\* C6: _updated_scale returns the candidate unchanged when every element of
\* the current scale is 1, whatever the momentum; otherwise (shapes that
\* broadcast) it returns exactly momentum * scale + (1 - momentum) * candidate,
\* element by element.
C6_UpdatedScale ==
    fn.done =>
        /\ IsSentinel(fn.s) => fn.res = fn.new
        /\ ~IsSentinel(fn.s) /\ ShapesMatch(fn.s, fn.new) =>
              /\ Len(fn.res) = Longer(fn.s, fn.new)
              /\ \A i \in 1..Len(fn.res) :
                    Unit * fn.res[i] =
                        fn.m * Elem(fn.s, i) + (Unit - fn.m) * Elem(fn.new, i)

\* a scale with one element equal to 1 and one not: the moving average applies
C6_Witness ==
    /\ fn.done
    /\ fn.s = <<RInt(1), RInt(2)>>
    /\ fn.new = <<R(1, 2)>>
    /\ fn.m = R(9, 10)
    /\ fn.res = <<R(95, 100), R(185, 100)>>

\* a module invocation with no hook registered
Unhooked(isc, osc) ==
    [isc |-> isc, osc |-> osc, args |-> <<>>, val |-> NoneVal, err |-> FALSE,
     log |-> <<>>, seen |-> <<>>, pre |-> <<>>, post |-> <<>>]

Called == last.mod # "none"
Arg == last.args[1]
CountEv(ev, m) ==
    Cardinality({i \in 1..Len(last.log) : last.log[i].ev = ev /\ last.log[i].mod = m})
Kinds == [i \in 1..Len(last.log) |-> last.log[i].ev]
NoHooks == preHooks = <<>> /\ postHooks = <<>>
HasId(hooks, id) == \E i \in 1..Len(hooks) : hooks[i].id = id
\* momentum * prev + (1 - momentum) * cand, element by element, with the
\* cold start
Ema(prev, cand, momentum) ==
    IF IsSentinel(prev) THEN cand
    ELSE [i \in 1..Longer(prev, cand) |->
             RMul(momentum, Elem(prev, i)) + RMul(Unit - momentum, Elem(cand, i))]
\* the module's own output for the latest invocation, with no hook involved
OwnCall == CallForward(last.mod, last.args, Unhooked(last.isc0, last.osc0))
OwnOutput == OwnCall.val

\* C1: once the calibration scope has been exited (no controller having been
\* entered while itself active), no calibration hook is registered; a module
\* invocation made with no hook registered leaves every input_scale and
\* output_scale as it was, runs no hook, and returns the module's own output.
C1_NoHookAfterExit ==
    /\ (~reentered /\ pc = "run" /\ scopes = <<>>) => NoHooks
    /\ (Called /\ last.npre = 0 /\ last.npost = 0) =>
          /\ input_scale = last.isc0
          /\ output_scale = last.osc0
          /\ \A i \in 1..Len(last.log) : last.log[i].ev \in {"forward", "qforward"}
          /\ last.err = OwnCall.err
          /\ last.out = OwnOutput

\* an eligible module invoked after the scope that calibrated it was exited
C1_Witness ==
    /\ ~reentered /\ pc = "run" /\ scopes = <<>> /\ NoHooks
    /\ Called /\ last.mod = "lin" /\ last.epoch = 1 /\ last.depth = 0
    /\ Arg = T(<<-508>>)
    /\ input_scale["lin"] = <<RInt(2)>>
    /\ output_scale["lin"] = <<RInt(4)>>
    /\ last.out.scale = <<RInt(4)>>

\* C2: when __exit__ returns for a scope whose body raised, the error is still
\* propagating, the hooks held by the controller's handles are no longer
\* registered, and (no controller having been entered while itself active)
\* no hook at all is left once the outermost scope has been left.
C2_ExitOnError ==
    [][(pc = "exit_post" /\ pc' = "run" /\ exc) =>
          /\ exc'
          /\ ~HasId(preHooks', pre_handle[cur])
          /\ ~HasId(postHooks', post_handle[cur])
          /\ (~reentered /\ scopes' = <<>>) => (preHooks' = <<>> /\ postHooks' = <<>>)]_vars

\* an error raised inside a hook has left the scope and is still propagating
C2_Witness ==
    /\ pc = "run" /\ exc /\ scopes = <<>> /\ NoHooks
    /\ last.err /\ last.depth = 1

\* C3: with scopes entered and exited one after another, each scope has exactly
\* one pre-hook and one post-hook registered, of the controller of that scope;
\* an invocation of an eligible module made there runs each of them once for
\* that module; and after each exit no hook is registered.
C3_SequentialScopes ==
    ~reentered =>
        /\ (pc = "run" /\ Len(scopes) = 1) =>
              /\ Len(preHooks) = 1 /\ preHooks[1].ctrl = scopes[1]
              /\ Len(postHooks) = 1 /\ postHooks[1].ctrl = scopes[1]
        /\ (pc = "run" /\ scopes = <<>>) => NoHooks
        /\ (Called /\ last.depth = 1 /\ Eligible(last.mod) /\ ~last.err) =>
              /\ last.npre = 1 /\ last.npost = 1
              /\ CountEv("pre", last.mod) = 1
              /\ CountEv("post", last.mod) = 1
              /\ CountEv("post_ret", last.mod) = 1

\* an invocation in the second of two scopes entered one after the other
C3_Witness ==
    /\ ~reentered /\ pc = "run" /\ Len(scopes) = 1 /\ enters = 2
    /\ preHooks = <<[id |-> 3, ctrl |-> scopes[1]]>>
    /\ postHooks = <<[id |-> 4, ctrl |-> scopes[1]]>>
    /\ Called /\ last.epoch = 2 /\ last.depth = 1 /\ Eligible(last.mod)
    /\ CountEv("pre", last.mod) = 1 /\ CountEv("post", last.mod) = 1

\* C4: at most one calibration scope is active at any time, and no module
\* invocation has the hooks of two scopes run for it.
C4_SingleActiveScope ==
    /\ Len(scopes) <= 1
    /\ Called => (CountEv("pre", last.mod) <= 1 /\ CountEv("post", last.mod) <= 1)

\* C5 as stated: wherever a calibration hook is registered, interception is
\* active.
C5_HooksImplyInterception == ~NoHooks => modeStack # <<>>

\* C5, amended: __enter__ activates interception before it registers the
\* pre-hook and then the post-hook; __exit__ deactivates interception first and
\* only then removes the pre-hook and the post-hook.  Interception is active
\* wherever the caller runs inside a scope, and during __exit__ the hooks are
\* still registered while the scope's interception is already off.
C5_EnterExitOrder ==
    /\ pc = "enter_pre" =>
          /\ Len(modeStack) = Len(scopes) + 1 /\ modeStack[Len(modeStack)] = cur
          /\ ~HasId(preHooks, nextId) /\ ~HasId(postHooks, nextId + 1)
    /\ pc = "enter_post" =>
          /\ Len(modeStack) = Len(scopes) + 1 /\ modeStack[Len(modeStack)] = cur
          /\ HasId(preHooks, pre_handle[cur]) /\ ~HasId(postHooks, nextId)
    /\ pc = "run" => (modeStack = scopes /\ (scopes # <<>> => modeStack # <<>>))
    /\ pc = "exit_pre" =>
          /\ Len(modeStack) = Len(scopes) - 1
          /\ ~reentered =>
                (HasId(preHooks, pre_handle[cur]) /\ HasId(postHooks, post_handle[cur]))
    /\ pc = "exit_post" =>
          /\ Len(modeStack) = Len(scopes) - 1
          /\ ~HasId(preHooks, pre_handle[cur])
          /\ ~reentered => HasId(postHooks, post_handle[cur])

\* inside __exit__ of the only scope: interception off, both hooks registered
C5_Witness ==
    /\ pc = "exit_pre" /\ Len(scopes) = 1 /\ modeStack = <<>>
    /\ Len(preHooks) = 1 /\ Len(postHooks) = 1

\* C7: for a module that is no quantized module, or whose activations are
\* None, every hook returns None and the invocation changes no input_scale and
\* no output_scale and delivers the module's own output.
C7_IneligibleNoOp ==
    (Called /\ ~(IsQModule(last.mod) /\ Activations(last.mod) # "none")) =>
        /\ input_scale = last.isc0
        /\ output_scale = last.osc0
        /\ \A i \in 1..Len(last.log) :
              last.log[i].ev \in {"pre", "post_ret"} => last.log[i].val = NoneVal
        /\ CountEv("pre", last.mod) = last.npre
        /\ CountEv("post_ret", last.mod) = last.npost
        /\ ~last.err
        /\ last.out = OwnOutput

\* a quantized module with activations None, invoked under two scopes
C7_Witness ==
    /\ Called /\ last.mod = "qoff" /\ last.npre = 2 /\ last.npost = 2
    /\ last.isc0["lin"] # Sentinel
    /\ last.out = Arg

\* C8: an eligible module invoked with a QTensor as first input ends with
\* input_scale the largest element of the tensor's scale (3 for a scale of
\* 1, 3, 2), whatever the momentum and the previous input_scale.
C8_AdoptQTensorScale ==
    (Called /\ Eligible(last.mod) /\ Arg.kind = "qtensor" /\ last.npre >= 1) =>
        /\ \E i \in 1..Len(Arg.scale) : input_scale[last.mod] = <<Arg.scale[i]>>
        /\ \A i \in 1..Len(Arg.scale) : Arg.scale[i] <= input_scale[last.mod][1]
        /\ Arg.scale = <<RInt(1), RInt(3), RInt(2)>> =>
              input_scale[last.mod] = <<RInt(3)>>

\* the scale replaces one that a plain batch had set, under momentum 0.5
C8_Witness ==
    /\ Called /\ last.mod = "lin" /\ Arg = QIn
    /\ last.npre = 1 /\ last.log[1].ctrl = "c2"
    /\ last.isc0["lin"] = <<RInt(4)>>
    /\ input_scale["lin"] = <<RInt(3)>>

C10_OutputRecalibrated ==
    /\ (Called /\ Eligible(last.mod) /\ last.npost = 1 /\ ~last.err) =>
          /\ last.out.kind = "qtensor"
          /\ last.out.scale = output_scale[last.mod]
          /\ last.out = last.log[Len(last.log)].val
    /\ (Called /\ last.mod \in {"lin", "ax"} /\ last.npre = 1 /\ last.npost = 1
          /\ ~last.err) =>
        LET m == last.mod
            c == last.log[4].ctrl
            raw == [Arg EXCEPT !.data = [i \in 1..Len(Arg.data) |-> Weight(m) * Arg.data[i]]]
            plain == IF raw.kind = "qtensor"
                     THEN [i \in 1..Len(raw.data) |-> raw.data[i] * Elem(raw.scale, i)]
                     ELSE raw.data
            cand == <<DivRound(MaxOf([i \in 1..Len(plain) |-> Abs(plain[i])]), QMax)>>
        IN  /\ Kinds = <<"pre", "forward", "qforward", "post", "qforward",
                         "forward", "qforward", "post_ret">>
            /\ \A i \in 5..7 : last.log[i].val = Arg /\ last.log[i].mod = m
            /\ output_scale[m] = Ema(last.osc0[m], cand, Momentum(c))
            /\ last.out = last.log[8].val
            /\ last.out.kind = "qtensor"
            /\ last.out.scale = output_scale[m]
            /\ last.out = Quantize(Plain(plain), output_scale[m])

\* the delivered output carries an output_scale that this invocation changed
C10_Witness ==
    /\ Called /\ last.mod = "lin" /\ last.npre = 1 /\ last.npost = 1 /\ ~last.err
    /\ last.log[4].ctrl = "c2"
    /\ last.osc0["lin"] = <<RInt(4)>>
    /\ output_scale["lin"] = <<RInt(6)>>
    /\ last.out.scale = <<RInt(6)>>
    /\ last.log[4].val.scale = <<RInt(4)>>

\* C11: inside an active scope an intercepted function call invokes the
\* original function exactly once, with the positional arguments it was given
\* and the keyword arguments it was given (none given: an empty dict), returns
\* what that function returned, and leaves every module's input_scale and
\* output_scale alone.
C11_PassThrough ==
    tf.done =>
        LET kw == IF tf.kwargs.isNone THEN Dict({}) ELSE tf.kwargs
        IN  /\ modeStack # <<>>
            /\ tf.invoked = <<[func |-> tf.func, args |-> tf.args, kwargs |-> kw]>>
            /\ tf.ret = OriginalFunction(tf.func, tf.args, kw)
            /\ \A m \in QModules : input_scale[m] = Sentinel /\ output_scale[m] = Sentinel

C11_Witness ==
    /\ tf.done
    /\ tf.func = "add" /\ tf.args = <<3, -2>> /\ tf.kwargs = Dict({<<"alpha", 2>>})
    /\ tf.ret = Returned(-1)
    /\ Len(tf.invoked) = 1


\* the latest invocation made again from the same module state with exactly
\* the hooks of one scope of controller c
Under(c) ==
    CallModule(last.mod, last.args,
               [Unhooked(last.isc0, last.osc0) EXCEPT
                   !.pre = <<[id |-> 1, ctrl |-> c]>>,
                   !.post = <<[id |-> 2, ctrl |-> c]>>])
\* the whole-tensor absmax candidate of module m's raw output on input x
OutputCandidate(m, x) ==
    LET raw == [i \in 1..Len(x.data) |-> Weight(m) * x.data[i]]
        plain == IF x.kind = "qtensor"
                 THEN [i \in 1..Len(raw) |-> raw[i] * Elem(x.scale, i)]
                 ELSE raw
    IN  <<DivRound(MaxOf([i \in 1..Len(plain) |-> Abs(plain[i])]), QMax)>>

C13_ForwardSeesInvocationInputs ==
    (Called /\ last.seen # <<>>) =>
        /\ last.seen[1].mod = last.mod
        /\ last.seen[1].args = last.args


\* how many times the latest invocation went through module k's __call__
Invocations(k) ==
    Cardinality({i \in 1..Len(last.seen) : last.seen[i].mod = k})
PosOf(ev, m) ==
    CHOOSE i \in 1..Len(last.log) : last.log[i].ev = ev /\ last.log[i].mod = m

\* C14: every invocation of a module, the one the caller made and those of
\* child modules, runs each registered pre-hook once and each registered
\* post-hook once, so under one scope the pre-hook once and the post-hook once;
\* for the eligible module the caller invoked the order is pre-hook, forward,
\* post-hook, the post-hook's own qforward and forward go through no hook of
\* that module and no further invocation of it, and the invocation ends with
\* the post-hook's return after a fixed number of steps.
C14_HookOrder ==
    /\ (Called /\ ~last.err) =>
          \A k \in Modules :
              /\ CountEv("pre", k) = last.npre * Invocations(k)
              /\ CountEv("post_ret", k) = last.npost * Invocations(k)
    /\ (~reentered /\ Called /\ last.depth = 1 /\ ~last.err) =>
        /\ \A k \in Modules :
              /\ CountEv("pre", k) = Invocations(k)
              /\ CountEv("post_ret", k) = Invocations(k)
              /\ CountEv("post", k) = IF Eligible(k) THEN Invocations(k) ELSE 0
        /\ Eligible(last.mod) =>
              LET m == last.mod
                  n == Len(last.log)
                  p == PosOf("post", m)
              IN  /\ Invocations(m) = 1
                  /\ last.seen[1].mod = m
                  /\ last.log[1].ev = "pre" /\ last.log[1].mod = m
                  /\ last.log[2].ev = "forward" /\ last.log[2].mod = m
                  /\ p > 2
                  /\ last.log[p + 1].ev = "qforward" /\ last.log[p + 1].mod = m
                  /\ \A i \in (p + 1)..(n - 1) :
                        last.log[i].mod = m => last.log[i].ev \in {"forward", "qforward"}
                  /\ CountEv("forward", m) = 2 /\ CountEv("qforward", m) = 3
                  /\ last.log[n].ev = "post_ret" /\ last.log[n].mod = m
                  /\ n = IF Child(m) = "none" THEN 8 ELSE 32

\* a parent with an eligible child, invoked once under one scope
C14_Witness ==
    /\ ~reentered /\ Called /\ last.depth = 1 /\ ~last.err
    /\ last.mod = "blk" /\ Len(last.log) = 32
    /\ Invocations("blk") = 1 /\ CountEv("pre", "blk") = 1 /\ CountEv("post", "blk") = 1
    /\ PosOf("post", "blk") = 12
    /\ CountEv("pre", "lin") = Invocations("lin")


\* C15: as long as no controller was entered while itself active, between
\* operations the registered pre-hooks, the registered post-hooks and the active
\* scopes are equally many and belong to the same controllers in the same
\* order, each exit takes away exactly the pair its enter registered, and no
\* hook is left once every scope is exited.
C15_HooksMatchScopes ==
    ~reentered =>
        /\ pc = "run" =>
              /\ Len(preHooks) = Len(scopes)
              /\ Len(postHooks) = Len(scopes)
              /\ \A i \in 1..Len(scopes) :
                    /\ preHooks[i].ctrl = scopes[i]
                    /\ postHooks[i].ctrl = scopes[i]
                    /\ preHooks[i].id = pre_handle[scopes[i]]
                    /\ postHooks[i].id = post_handle[scopes[i]]
              /\ scopes = <<>> => NoHooks
        /\ pc = "exit_pre" =>
              /\ Len(preHooks) = Len(scopes) /\ Len(postHooks) = Len(scopes)
              /\ preHooks[Len(preHooks)].id = pre_handle[cur]
              /\ postHooks[Len(postHooks)].id = post_handle[cur]
        /\ pc = "exit_post" =>
              /\ Len(preHooks) = Len(scopes) - 1 /\ Len(postHooks) = Len(scopes)
              /\ ~HasId(preHooks, pre_handle[cur])

\* two scopes of different controllers are active, one inside the other
C15_Witness ==
    /\ ~reentered /\ pc = "run"
    /\ Len(scopes) = 2 /\ scopes[1] # scopes[2]
    /\ Len(preHooks) = 2 /\ Len(postHooks) = 2

\* every scope was exited after two had been active, one inside the other
C15_WitnessAllExited ==
    /\ ~reentered /\ pc = "run" /\ enters = 2 /\ scopes = <<>> /\ NoHooks
    /\ pre_handle["c1"] # 0 /\ pre_handle["c2"] # 0
    /\ Called /\ last.depth = 2

\* a controller entered while itself active leaves its first pair registered
C15_ReentryLeaks ==
    /\ reentered /\ pc = "run" /\ scopes = <<>>
    /\ Len(preHooks) = 1 /\ Len(postHooks) = 1


\* C16: when the input_scale (output_scale) that an earlier calibration step
\* stored for an eligible module has every element equal to 1, the next
\* plain batch under one scope leaves it at the new candidate, not at the
\* moving average of the stored scale and the candidate.
C16_ColdStartByValue ==
    (Called /\ Eligible(last.mod) /\ Arg.kind = "tensor" /\ ~last.err
       /\ last.npre = 1 /\ last.npost = 1) =>
        LET m == last.mod
            mags == [i \in 1..Len(Arg.data) |-> DivRound(Abs(Arg.data[i]), QMax)]
            icand == IF m = "ax" THEN mags ELSE <<MaxOf(mags)>>
            ocand == OutputCandidate(m, Arg)
        IN  /\ (m \in last.ical /\ IsSentinel(last.isc0[m])) =>
                  input_scale[m] = icand
            /\ (m \in {"lin", "ax"} /\ m \in last.ocal /\ IsSentinel(last.osc0[m])) =>
                  output_scale[m] = ocand

\* lin was calibrated with a batch of absmax 127 (candidate 1.0), then gets a
\* batch of candidate 4.0: input_scale is 4.0, where the average would be 1.3
C16_Witness ==
    /\ Called /\ last.mod = "lin" /\ Arg = T(<<-508>>) /\ ~last.err
    /\ last.npre = 1 /\ last.npost = 1
    /\ "lin" \in last.ical
    /\ last.isc0["lin"] = <<RInt(1)>> /\ last.osc0["lin"] = <<RInt(2)>>
    /\ input_scale["lin"] = <<RInt(4)>>

\* ax was calibrated to output_scale 1.0, then gets a batch of output
\* candidate 3.0: output_scale is 3.0, where the average would be 1.2
C16_WitnessOutput ==
    /\ Called /\ last.mod = "ax" /\ Arg = T(<<127, -381>>) /\ ~last.err
    /\ last.npre = 1 /\ last.npost = 1
    /\ "ax" \in last.ocal /\ "ax" \in last.ical
    /\ last.osc0["ax"] = <<RInt(1)>> /\ last.isc0["ax"] = <<RInt(1)>>
    /\ output_scale["ax"] = <<RInt(3)>>
    /\ input_scale["ax"] = <<RInt(1), RInt(3)>>


\* the scale after n updates with the same candidate
RECURSIVE EmaTimes(_, _, _, _)
EmaTimes(prev, cand, momentum, n) ==
    IF n = 0 THEN prev ELSE EmaTimes(Ema(prev, cand, momentum), cand, momentum, n - 1)

\* C17: one invocation of an eligible parent under one scope invokes its
\* eligible child three times with the hooks registered (from the parent's
\* forward, and from the qforward and the forward that the parent's post-hook
\* runs), and each of them updates the child's input_scale and output_scale:
\* the child's scales are three updates away from what they were, not one.
C17_ChildUpdatedPerInvocation ==
    (~reentered /\ Called /\ last.depth = 1 /\ ~last.err
       /\ Eligible(last.mod) /\ Child(last.mod) # "none" /\ Eligible(Child(last.mod))) =>
        LET k == Child(last.mod)
            c == last.log[1].ctrl
            mags == [i \in 1..Len(Arg.data) |-> DivRound(Abs(Arg.data[i]), QMax)]
            icand == <<MaxOf(mags)>>
            ocand == OutputCandidate(k, Arg)
        IN  /\ Invocations(last.mod) = 1
            /\ Invocations(k) = 3
            /\ CountEv("pre", k) = 3 /\ CountEv("post_ret", k) = 3
            /\ \A i \in 1..Len(last.seen) :
                  last.seen[i].mod = k => last.seen[i].args = <<Arg>>
            /\ Arg.kind = "tensor" =>
                  /\ input_scale[k] = EmaTimes(last.isc0[k], icand, R(9, 10), 3)
                  /\ output_scale[k] = EmaTimes(last.osc0[k], ocand, Momentum(c), 3)
            /\ Arg.kind = "qtensor" => input_scale[k] = TorchMax(Arg.scale)

\* the parent invoked once with a batch of candidate 4.0 when the child's
\* input_scale was 2.0: three updates give 2.542, one would give 2.2
C17_Witness ==
    /\ ~reentered /\ Called /\ last.depth = 1 /\ ~last.err
    /\ last.mod = "blk" /\ Arg = T(<<-508>>)
    /\ CountEv("pre", "lin") = 3 /\ CountEv("post_ret", "lin") = 3
    /\ last.isc0["lin"] = <<RInt(2)>>
    /\ input_scale["lin"] = <<R(2542, 1000)>>
    /\ input_scale["lin"] # Ema(last.isc0["lin"], <<RInt(4)>>, R(9, 10))

====
